---- MODULE Spec2Model ----
(***************************************************************************)
(* Model of shortcut_tool.py: a Tk desktop utility that shows a cheat      *)
(* sheet of shortcuts on a global hotkey.  The model covers                *)
(*   - ConfigManager.load / ConfigManager.save, with the persisted file    *)
(*     kept as the text json.dump writes and json.load parses,             *)
(*   - ShortcutOverlay (refresh / toggle / show / hide),                   *)
(*   - SettingsWindow (refresh / add_item / edit_item / remove_item /      *)
(*     save), and                                                          *)
(*   - ShortcutApp (__init__, register_hotkey, toggle, show_overlay,       *)
(*     open_settings, on_save, on_close) with the keyboard listener and    *)
(*     the Tk "after" queue.                                               *)
(* A Python str is a sequence of one-character strings; a Python list is   *)
(* a sequence.                                                             *)
(***************************************************************************)
EXTENDS Integers, Sequences, FiniteSets, TLC

VARIABLES
    pc,            \* "init" | "run" | "crashed" | "closed" (application), "persist" (adapter alone)
    file,          \* the file at ConfigManager.path: [exists, text]
    loaded,        \* what the last ConfigManager.load call did: [kind, sawFile, hotkey, shortcuts]
    err,           \* exception raised by the most recent handler, "none" if none
    hotkey,        \* AppConfig.hotkey
    shortcuts,     \* AppConfig.shortcuts
    hotkey_var,    \* SettingsWindow.hotkey_var
    settingsTree,  \* rows of SettingsWindow.tree
    selection,     \* index (1-based) of the selected row of SettingsWindow.tree, 0 if none
    overlayTree,   \* rows of ShortcutOverlay.tree
    overlayState,  \* ShortcutOverlay.window.state()
    bindings,      \* hotkeys registered with the keyboard listener, in registration order
    afterQueue,    \* callbacks queued with root.after(0, ...), each tagged with its press
    pressCount,    \* presses that reached a registered callback so far
    toggledLog,    \* the presses whose toggle has run, in execution order
    msgbox,        \* message box shown by the most recent handler, "none" if none
    savedOnce,     \* TRUE once SettingsWindow.save has completed
    edits,         \* add / edit / remove operations completed so far
    editBudget,    \* the run ends its add / edit / remove operations at this many
    pressBudget    \* the run ends its hotkey presses at this many

vars == <<pc, file, loaded, err, hotkey, shortcuts, hotkey_var, settingsTree,
          selection, overlayTree, overlayState, bindings,
          afterQueue, pressCount, toggledLog, msgbox, savedOnce, edits,
          editBudget, pressBudget>>

\* ------------------------------------------------------------------ bounds

\* Add / edit / remove operations completed in one run of the application.
MaxEdits == 2

\* Hotkey presses delivered to a registered callback in one run.
MaxPress == 2

\* The runs explored are those with up to MaxEdits list operations and fewer
\* presses (Spec), and those with up to MaxPress presses and fewer list
\* operations (SpecKeys).

\* Longest entry list handed to ConfigManager.save on its own.
MaxPersistLen == 2

\* ----------------------------------------------------------------- strings

Quote == "\""
Backslash == "\\"
Newline == "\n"
Tab == "\t"
Space == " "

\* Characters str.strip() removes, and json's scanner skips between tokens.
Whitespace == {Space, Tab, Newline}

\* Characters json's string scanner rejects unescaped (strict mode).
ControlChars == {Tab, Newline}

RECURSIVE LStrip(_)
LStrip(s) ==
    IF s # <<>> /\ Head(s) \in Whitespace THEN LStrip(Tail(s)) ELSE s

RECURSIVE RStrip(_)
RStrip(s) ==
    IF s # <<>> /\ s[Len(s)] \in Whitespace
    THEN RStrip(SubSeq(s, 1, Len(s) - 1))
    ELSE s

Strip(s) == RStrip(LStrip(s))

\* Literals of the program.
DefaultHotkey == <<"c", "t", "r", "l", "+", "s", "h", "i", "f", "t", "+", "s">>
KeyHotkey == <<"h", "o", "t", "k", "e", "y">>
KeyShortcuts == <<"s", "h", "o", "r", "t", "c", "u", "t", "s">>
KeyTitle == <<"t", "i", "t", "l", "e">>
KeyDescription == <<"d", "e", "s", "c", "r", "i", "p", "t", "i", "o", "n">>

ShortcutItem(title, description) == [title |-> title, description |-> description]

AppConfig(h, s) == [hotkey |-> h, shortcuts |-> s]

\* The entries load seeds a missing file's configuration with; AppConfig's own
\* default is the empty list.
EmptyShortcuts == <<>>

DefaultShortcuts ==
    << ShortcutItem(<<"W", "i", "n", "+", "E">>,
                    <<"O", "p", "e", "n", " ", "F", "i", "l", "e", " ",
                      "E", "x", "p", "l", "o", "r", "e", "r">>),
       ShortcutItem(<<"W", "i", "n", "+", "L">>,
                    <<"L", "o", "c", "k", " ", "t", "h", "e", " ", "P", "C">>) >>

\* -------------------------------------------------------- json.dump (text)

\* json's string escaping with ensure_ascii=False.
EncodeCharNoEscape(c) == <<c>>

EncodeChar(c) ==
    CASE c = Quote -> <<Backslash, Quote>>
      [] c = Backslash -> <<Backslash, Backslash>>
      [] c = Newline -> <<Backslash, "n">>
      [] c = Tab -> <<Backslash, "t">>
      [] OTHER -> <<c>>

RECURSIVE EncodeChars(_)
EncodeChars(s) ==
    IF s = <<>> THEN <<>> ELSE EncodeChar(Head(s)) \o EncodeChars(Tail(s))

EncodeString(s) == <<Quote>> \o EncodeChars(s) \o <<Quote>>

RECURSIVE Indent(_)
Indent(n) == IF n = 0 THEN <<>> ELSE <<Space>> \o Indent(n - 1)

NewlineIndent(n) == <<Newline>> \o Indent(n)

\* One "key": "value" member of an object.
Member(key, value) == EncodeString(key) \o <<":", Space>> \o value

\* The fixed text around the values, with indent=2: the payload's members at
\* level 1, an entry at level 2, its members at level 3.
HotkeyLead == <<"{">> \o NewlineIndent(2) \o Member(KeyHotkey, <<>>)
ShortcutsLead == <<",">> \o NewlineIndent(2) \o Member(KeyShortcuts, <<>>)
PayloadEnd == NewlineIndent(0) \o <<"}">>
ItemLead == NewlineIndent(4) \o <<"{">> \o NewlineIndent(6) \o Member(KeyTitle, <<>>)
DescriptionLead == <<",">> \o NewlineIndent(6) \o Member(KeyDescription, <<>>)
ItemEnd == NewlineIndent(4) \o <<"}">>
ListEnd == NewlineIndent(2) \o <<"]">>

\* An entry of the list.
DumpItem(item) ==
    ItemLead \o EncodeString(item.title)
    \o DescriptionLead \o EncodeString(item.description) \o ItemEnd

RECURSIVE DumpItems(_)
DumpItems(items) ==
    IF items = <<>> THEN <<>>
    ELSE DumpItem(Head(items))
         \o (IF Tail(items) = <<>> THEN <<>> ELSE <<",">>)
         \o DumpItems(Tail(items))

DumpList(items) ==
    IF items = <<>> THEN <<"[", "]">>
    ELSE <<"[">> \o DumpItems(items) \o ListEnd

\* json.dump(payload, handle, ensure_ascii=False, indent=2)
Dump(config) ==
    HotkeyLead \o EncodeString(config.hotkey)
    \o ShortcutsLead \o DumpList(config.shortcuts) \o PayloadEnd

\* -------------------------------------------------------- json.load (text)

\* A parsed value: t is "str" (s holds it), "arr" (items holds the elements)
\* or "obj" (items holds [k, v] members in file order).
JStr(s) == [t |-> "str", s |-> s, items |-> <<>>]
JArr(items) == [t |-> "arr", s |-> <<>>, items |-> items]
JObj(items) == [t |-> "obj", s |-> <<>>, items |-> items]

ParseFail == [ok |-> FALSE, val |-> JStr(<<>>), pos |-> 0]
ParseOk(v, p) == [ok |-> TRUE, val |-> v, pos |-> p]

RECURSIVE SkipWs(_, _)
SkipWs(text, i) ==
    IF i <= Len(text) /\ text[i] \in Whitespace THEN SkipWs(text, i + 1) ELSE i

At(text, i) == IF i >= 1 /\ i <= Len(text) THEN text[i] ELSE "EOF"

\* The characters of a string token from position i (after the opening quote).
RECURSIVE ScanString(_, _, _)
ScanString(text, i, acc) ==
    LET c == At(text, i) IN
    CASE c = "EOF" -> ParseFail
      [] c = Quote -> ParseOk(JStr(acc), i + 1)
      [] c \in ControlChars -> ParseFail
      [] c = Backslash ->
            LET e == At(text, i + 1) IN
            CASE e = Quote -> ScanString(text, i + 2, Append(acc, Quote))
              [] e = Backslash -> ScanString(text, i + 2, Append(acc, Backslash))
              [] e = "/" -> ScanString(text, i + 2, Append(acc, "/"))
              [] e = "n" -> ScanString(text, i + 2, Append(acc, Newline))
              [] e = "t" -> ScanString(text, i + 2, Append(acc, Tab))
              [] OTHER -> ParseFail
      [] OTHER -> ScanString(text, i + 1, Append(acc, c))

RECURSIVE ParseValue(_, _)
RECURSIVE ParseMembers(_, _, _)
RECURSIVE ParseElements(_, _, _)

\* Members of an object; i is at the opening quote of the next key.
ParseMembers(text, i, acc) ==
    IF At(text, i) # Quote THEN ParseFail
    ELSE
    LET k == ScanString(text, i + 1, <<>>) IN
    IF ~k.ok THEN ParseFail
    ELSE
    LET c == SkipWs(text, k.pos) IN
    IF At(text, c) # ":" THEN ParseFail
    ELSE
    LET v == ParseValue(text, c + 1) IN
    IF ~v.ok THEN ParseFail
    ELSE
    LET n == SkipWs(text, v.pos)
        members == Append(acc, [k |-> k.val.s, v |-> v.val])
    IN
    CASE At(text, n) = "}" -> ParseOk(JObj(members), n + 1)
      [] At(text, n) = "," -> ParseMembers(text, SkipWs(text, n + 1), members)
      [] OTHER -> ParseFail

\* Elements of an array; i is at the start of the next element.
ParseElements(text, i, acc) ==
    LET v == ParseValue(text, i) IN
    IF ~v.ok THEN ParseFail
    ELSE
    LET n == SkipWs(text, v.pos)
        elements == Append(acc, v.val)
    IN
    CASE At(text, n) = "]" -> ParseOk(JArr(elements), n + 1)
      [] At(text, n) = "," -> ParseElements(text, n + 1, elements)
      [] OTHER -> ParseFail

ParseValue(text, i) ==
    LET s == SkipWs(text, i)
        c == At(text, s)
    IN
    CASE c = Quote -> ScanString(text, s + 1, <<>>)
      [] c = "{" ->
            LET m == SkipWs(text, s + 1) IN
            IF At(text, m) = "}" THEN ParseOk(JObj(<<>>), m + 1)
            ELSE ParseMembers(text, m, <<>>)
      [] c = "[" ->
            LET m == SkipWs(text, s + 1) IN
            IF At(text, m) = "]" THEN ParseOk(JArr(<<>>), m + 1)
            ELSE ParseElements(text, m, <<>>)
      [] OTHER -> ParseFail

\* json.load(handle): the whole text is one value; anything after it is "Extra data".
Loads(text) ==
    LET v == ParseValue(text, 1) IN
    IF v.ok /\ SkipWs(text, v.pos) = Len(text) + 1 THEN v ELSE ParseFail

\* dict lookup: the last member with the key wins; 0 if the key is absent.
RECURSIVE FindKey(_, _, _)
FindKey(items, key, i) ==
    IF i = 0 THEN 0
    ELSE IF items[i].k = key THEN i
    ELSE FindKey(items, key, i - 1)

HasKey(obj, key) == FindKey(obj.items, key, Len(obj.items)) # 0
Get(obj, key) == obj.items[FindKey(obj.items, key, Len(obj.items))].v

\* ----------------------------------------------------------- ConfigManager

NoFile == [exists |-> FALSE, text |-> <<>>]
FileWith(text) == [exists |-> TRUE, text |-> text]

NoLoad == [kind |-> "none", sawFile |-> FALSE, hotkey |-> <<>>, shortcuts |-> <<>>]
Loaded(sawFile, h, s) ==
    [kind |-> "ok", sawFile |-> sawFile, hotkey |-> h, shortcuts |-> s]
Raised(exception) ==
    [kind |-> exception, sawFile |-> TRUE, hotkey |-> <<>>, shortcuts |-> <<>>]

\* What "for item in <value>" iterates over: the elements of a list, the
\* characters of a str, the keys of a dict.
RECURSIVE KeysOf(_)
KeysOf(items) ==
    IF items = <<>> THEN <<>> ELSE <<JStr(Head(items).k)>> \o KeysOf(Tail(items))

RECURSIVE CharsOf(_)
CharsOf(s) == IF s = <<>> THEN <<>> ELSE <<JStr(<<Head(s)>>)>> \o CharsOf(Tail(s))

Iterate(v) ==
    CASE v.t = "arr" -> v.items
      [] v.t = "str" -> CharsOf(v.s)
      [] OTHER -> KeysOf(v.items)

\* The list comprehension of load: "" if every item converts, else the first
\* exception.  item["title"] is evaluated before item["description"].
RECURSIVE ItemsError(_)
ItemsError(items) ==
    IF items = <<>> THEN ""
    ELSE LET item == Head(items) IN
         CASE item.t # "obj" -> "TypeError"
           [] ~HasKey(item, KeyTitle) -> "KeyError"
           [] ~HasKey(item, KeyDescription) -> "KeyError"
           [] Get(item, KeyTitle).t # "str" -> "NonStringValue"
           [] Get(item, KeyDescription).t # "str" -> "NonStringValue"
           [] OTHER -> ItemsError(Tail(items))

RECURSIVE ItemsOf(_)
ItemsOf(items) ==
    IF items = <<>> THEN <<>>
    ELSE <<ShortcutItem(Get(Head(items), KeyTitle).s,
                        Get(Head(items), KeyDescription).s)>>
         \o ItemsOf(Tail(items))

\* ConfigManager.load on file f.  kind is "ok", or the exception that leaves
\* load (no handler catches it), or "NonStringValue" where a value of the file
\* is not a string: the code keeps such a value as it is, and the model follows
\* it no further (no file of InitialFiles holds one).
ConfigManager_load(f) ==
    IF ~f.exists THEN Loaded(FALSE, DefaultHotkey, DefaultShortcuts)
    ELSE
    LET data == Loads(f.text) IN
    IF ~data.ok THEN Raised("JSONDecodeError")
    ELSE IF data.val.t # "obj" THEN Raised("AttributeError")
    ELSE
    LET list == IF HasKey(data.val, KeyShortcuts)
                THEN Iterate(Get(data.val, KeyShortcuts)) ELSE <<>>
        h == IF HasKey(data.val, KeyHotkey)
             THEN Get(data.val, KeyHotkey) ELSE JStr(DefaultHotkey)
    IN
    IF ItemsError(list) # "" THEN Raised(ItemsError(list))
    ELSE IF h.t # "str" THEN Raised("NonStringValue")
    ELSE Loaded(TRUE, h.s, ItemsOf(list))

\* ConfigManager.save: the file after the call.
ConfigManager_save(config) == FileWith(Dump(config))

\* ------------------------------------------------------------ the widgets

\* A Treeview row: values=(shortcut.title, shortcut.description).
Row(item) == <<item.title, item.description>>

RECURSIVE Rows(_)
Rows(items) == IF items = <<>> THEN <<>> ELSE <<Row(Head(items))>> \o Rows(Tail(items))

\* ShortcutOverlay.refresh / SettingsWindow.refresh: every row is deleted, then
\* one row per entry is inserted at the end.
RefreshedRowsAppendOnly(rows, items) == rows \o Rows(items)

RefreshedRows(rows, items) == Rows(items)

\* The selection of a Treeview after refresh: the selected row was deleted,
\* and the rows inserted are new items, none selected.
SelectionKept(sel) == sel

SelectionAfterRefresh(sel) == 0

\* del list[index], index 0-based in the code and 1-based here.
DeleteAt(list, i) == SubSeq(list, 1, i - 1) \o SubSeq(list, i + 1, Len(list))

ReplaceAt(list, i, item) == [list EXCEPT ![i] = item]

\* simpledialog.askstring: None when cancelled, else the text entered.
Cancelled == [cancel |-> TRUE, text |-> <<>>]
Answer(text) == [cancel |-> FALSE, text |-> text]

\* "if not title": None or the empty string.
Falsy(answer) == answer.cancel \/ answer.text = <<>>

\* "if description is None"
IsNone(answer) == answer.cancel

\* ------------------------------------------------------- keyboard bindings

\* keyboard.unhook_all(): every registered hotkey is removed.
unhook_all(bs) == <<>>

\* keyboard.add_hotkey(hotkey, callback): one more registration.  The library
\* is taken to accept the combination: the hotkeys given to it here are the
\* default, the one of a file the application wrote, and a single letter.
add_hotkey(bs, h) == Append(bs, h)

\* ShortcutApp.register_hotkey
register_hotkey_stacking(bs, h) == add_hotkey(bs, h)

register_hotkey_once(bs, h) == IF bs = <<>> THEN add_hotkey(bs, h) ELSE bs

register_hotkey(bs, h) == add_hotkey(unhook_all(bs), h)

\* The registrations a press of combination c invokes.
RECURSIVE Matching(_, _)
Matching(bs, c) ==
    IF bs = <<>> THEN 0
    ELSE (IF Head(bs) = c THEN 1 ELSE 0) + Matching(Tail(bs), c)

\* ------------------------------------------------------------------ inputs

\* Texts the user types into the hotkey field.
HotkeyInputs == {<<>>, <<Space>>, <<Space, "a", Space>>}

\* Answers to the title and the description prompts.
TitleAnswers == {Cancelled, Answer(<<>>), Answer(<<"F", "1">>)}
DescriptionAnswers == {Cancelled, Answer(<<>>)}

\* The description prompt opens only after a title was given.
DescriptionPrompt(title) == IF Falsy(title) THEN {Cancelled} ELSE DescriptionAnswers

\* Key combinations the user presses.
KeyCombos == {DefaultHotkey, <<"a">>}

\* The file when the application starts: none; one the application wrote;
\* a truncated one; one whose entry has no description.
SavedBefore ==
    ConfigManager_save(AppConfig(DefaultHotkey, <<ShortcutItem(<<"F", "1">>, <<>>)>>))
Truncated == FileWith(<<"{">>)
EntryWithoutDescription ==
    FileWith(<<"{">> \o Member(KeyShortcuts,
                 <<"[", "{">> \o Member(KeyTitle, EncodeString(<<"F", "1">>))
                 \o <<"}", "]">>) \o <<"}">>)
MalformedFiles == {Truncated, EntryWithoutDescription}
InitialFiles == {NoFile, SavedBefore} \cup MalformedFiles

\* ------------------------------------------------------------ application

InitApp ==
    /\ pc = "init"
    /\ file \in InitialFiles
    /\ loaded = NoLoad
    /\ err = "none"
    /\ hotkey = <<>>
    /\ shortcuts = <<>>
    /\ hotkey_var = <<>>
    /\ settingsTree = <<>>
    /\ selection = 0
    /\ overlayTree = <<>>
    /\ overlayState = "none"
    /\ bindings = <<>>
    /\ afterQueue = <<>>
    /\ pressCount = 0
    /\ toggledLog = <<>>
    /\ msgbox = "none"
    /\ savedOnce = FALSE
    /\ edits = 0

Init == InitApp /\ editBudget = MaxEdits /\ pressBudget = MaxPress - 1

InitKeys == InitApp /\ editBudget = MaxEdits - 1 /\ pressBudget = MaxPress

Exceptions == {"JSONDecodeError", "AttributeError", "TypeError", "KeyError"}

\* main() / ShortcutApp.__init__: load the configuration, build the overlay
\* (withdrawn, no rows) and the settings window (hotkey_var set, refreshed,
\* withdrawn), register the hotkey.  An exception of load leaves __init__ and
\* main: the process ends before any window is built.
ShortcutApp_init ==
    /\ pc = "init"
    /\ \E r \in {ConfigManager_load(file)} :
       /\ r.kind \in Exceptions \cup {"ok"}
       /\ loaded' = r
       /\ IF r.kind = "ok"
          THEN /\ pc' = "run"
               /\ err' = "none"
               /\ hotkey' = r.hotkey
               /\ shortcuts' = r.shortcuts
               /\ hotkey_var' = r.hotkey
               /\ settingsTree' = RefreshedRows(<<>>, r.shortcuts)
               /\ overlayState' = "withdrawn"
               /\ bindings' = register_hotkey(bindings, r.hotkey)
          ELSE /\ pc' = "crashed"
               /\ err' = r.kind
               /\ UNCHANGED <<hotkey, shortcuts, hotkey_var, settingsTree,
                              overlayState, bindings>>
    /\ UNCHANGED <<file, selection, overlayTree, afterQueue, pressCount,
                   toggledLog, msgbox, savedOnce, edits, editBudget, pressBudget>>

\* A handler of the UI loop that shows the message box m and raises e.
Handled(m, e) == msgbox' = m /\ err' = e

Quiet == Handled("none", "none")

\* ShortcutApp.open_settings (the Settings button of the root window).  The
\* settings window's own visibility (deiconify here, withdraw on its
\* WM_DELETE_WINDOW) is read by no code of the program and is not kept: its
\* handlers below are taken to be invocable whenever the application runs.
open_settings ==
    /\ pc = "run"
    /\ settingsTree' = RefreshedRows(settingsTree, shortcuts)
    /\ selection' = SelectionAfterRefresh(selection)
    /\ Quiet
    /\ UNCHANGED <<pc, file, loaded, hotkey, shortcuts, hotkey_var, overlayTree,
                   overlayState, bindings, afterQueue, pressCount, toggledLog,
                   savedOnce, edits, editBudget, pressBudget>>

\* The user edits the hotkey Entry, bound to hotkey_var.
type_hotkey(text) ==
    /\ pc = "run"
    /\ hotkey_var' = text
    /\ Quiet
    /\ UNCHANGED <<pc, file, loaded, hotkey, shortcuts, settingsTree, selection,
                   overlayTree, overlayState, bindings, afterQueue,
                   pressCount, toggledLog, savedOnce, edits, editBudget, pressBudget>>

\* The user clicks row i of the settings Treeview.
select_row(i) ==
    /\ pc = "run"
    /\ i \in 1..Len(settingsTree)
    /\ selection' = i
    /\ Quiet
    /\ UNCHANGED <<pc, file, loaded, hotkey, shortcuts, hotkey_var, settingsTree,
                   overlayTree, overlayState, bindings, afterQueue,
                   pressCount, toggledLog, savedOnce, edits, editBudget, pressBudget>>

\* SettingsWindow.add_item, with the answers the two prompts get.
add_item(title, description) ==
    /\ pc = "run"
    /\ edits < editBudget
    /\ Quiet
    /\ IF Falsy(title) \/ IsNone(description)
       THEN UNCHANGED <<shortcuts, settingsTree, selection, edits>>
       ELSE /\ shortcuts' = Append(shortcuts, ShortcutItem(title.text, description.text))
            /\ settingsTree' = RefreshedRows(settingsTree, shortcuts')
            /\ selection' = SelectionAfterRefresh(selection)
            /\ edits' = edits + 1
    /\ UNCHANGED <<pc, file, loaded, hotkey, hotkey_var, overlayTree,
                   overlayState, bindings, afterQueue, pressCount, toggledLog,
                   savedOnce, editBudget, pressBudget>>

\* SettingsWindow.edit_item
edit_item(title, description) ==
    /\ pc = "run"
    /\ edits < editBudget
    /\ IF selection = 0
       THEN /\ Handled("showinfo: Please select a shortcut to edit.", "none")
            /\ UNCHANGED <<shortcuts, settingsTree, selection, edits>>
       ELSE IF selection > Len(shortcuts)
       THEN /\ Handled("none", "IndexError")
            /\ UNCHANGED <<shortcuts, settingsTree, selection, edits>>
       ELSE IF Falsy(title) \/ IsNone(description)
       THEN /\ Quiet
            /\ UNCHANGED <<shortcuts, settingsTree, selection, edits>>
       ELSE /\ Quiet
            /\ shortcuts' = ReplaceAt(shortcuts, selection,
                                      ShortcutItem(title.text, description.text))
            /\ settingsTree' = RefreshedRows(settingsTree, shortcuts')
            /\ selection' = SelectionAfterRefresh(selection)
            /\ edits' = edits + 1
    /\ UNCHANGED <<pc, file, loaded, hotkey, hotkey_var, overlayTree,
                   overlayState, bindings, afterQueue, pressCount, toggledLog,
                   savedOnce, editBudget, pressBudget>>

\* SettingsWindow.remove_item
remove_item ==
    /\ pc = "run"
    /\ edits < editBudget
    /\ IF selection = 0
       THEN /\ Handled("showinfo: Please select a shortcut to remove.", "none")
            /\ UNCHANGED <<shortcuts, settingsTree, selection, edits>>
       ELSE IF selection > Len(shortcuts)
       THEN /\ Handled("none", "IndexError")
            /\ UNCHANGED <<shortcuts, settingsTree, selection, edits>>
       ELSE /\ Quiet
            /\ shortcuts' = DeleteAt(shortcuts, selection)
            /\ settingsTree' = RefreshedRows(settingsTree, shortcuts')
            /\ selection' = SelectionAfterRefresh(selection)
            /\ edits' = edits + 1
    /\ UNCHANGED <<pc, file, loaded, hotkey, hotkey_var, overlayTree,
                   overlayState, bindings, afterQueue, pressCount, toggledLog,
                   savedOnce, editBudget, pressBudget>>

\* The first lines of SettingsWindow.save: hotkey = hotkey_var.get().strip(),
\* rejected "if not hotkey".
CheckedHotkey_never_rejected(raw) == [rejected |-> FALSE, hotkey |-> Strip(raw)]

CheckedHotkey_before_strip(raw) == [rejected |-> raw = <<>>, hotkey |-> Strip(raw)]

CheckedHotkey(raw) == [rejected |-> Strip(raw) = <<>>, hotkey |-> Strip(raw)]

\* SettingsWindow.save, and ShortcutApp.on_save which it calls
SettingsWindow_save ==
    /\ pc = "run"
    /\ \E h \in {CheckedHotkey(hotkey_var)} :
       IF h.rejected
       THEN /\ Handled("showerror: Please enter a valid hotkey.", "none")
            /\ UNCHANGED <<hotkey, file, bindings, savedOnce>>
       ELSE /\ hotkey' = h.hotkey
            /\ file' = ConfigManager_save(AppConfig(h.hotkey, shortcuts))
            /\ bindings' = register_hotkey(bindings, h.hotkey)
            /\ savedOnce' = TRUE
            /\ Handled("showinfo: Settings saved. New hotkey is active now.", "none")
    /\ UNCHANGED <<pc, loaded, shortcuts, hotkey_var, settingsTree, selection,
                   overlayTree, overlayState, afterQueue, pressCount,
                   toggledLog, edits, editBudget, pressBudget>>

\* ShortcutOverlay.show: refresh, then deiconify.
ShortcutOverlay_show(tree, state, items) ==
    [tree |-> RefreshedRows(tree, items), state |-> "normal"]

\* ShortcutOverlay.hide: withdraw.
ShortcutOverlay_hide(tree, state, items) ==
    [tree |-> tree, state |-> "withdrawn"]

\* ShortcutOverlay.toggle
ShortcutOverlay_toggle_on_normal(tree, state, items) ==
    IF state = "normal"
    THEN ShortcutOverlay_show(tree, state, items)
    ELSE ShortcutOverlay_hide(tree, state, items)

ShortcutOverlay_toggle(tree, state, items) ==
    IF state = "withdrawn"
    THEN ShortcutOverlay_show(tree, state, items)
    ELSE ShortcutOverlay_hide(tree, state, items)

\* ShortcutApp.show_overlay (the Show Shortcuts button of the root window)
show_overlay ==
    /\ pc = "run"
    /\ \E o \in {ShortcutOverlay_show(overlayTree, overlayState, shortcuts)} :
       overlayTree' = o.tree /\ overlayState' = o.state
    /\ Quiet
    /\ UNCHANGED <<pc, file, loaded, hotkey, shortcuts, hotkey_var, settingsTree,
                   selection, bindings, afterQueue, pressCount,
                   toggledLog, savedOnce, edits, editBudget, pressBudget>>

\* Escape, the Hide button or WM_DELETE_WINDOW of the overlay: self.hide
hide_overlay ==
    /\ pc = "run"
    /\ overlayState = "normal"
    /\ \E o \in {ShortcutOverlay_hide(overlayTree, overlayState, shortcuts)} :
       overlayTree' = o.tree /\ overlayState' = o.state
    /\ Quiet
    /\ UNCHANGED <<pc, file, loaded, hotkey, shortcuts, hotkey_var, settingsTree,
                   selection, bindings, afterQueue, pressCount,
                   toggledLog, savedOnce, edits, editBudget, pressBudget>>

\* The callback registered with the hotkey, run by the listener thread for
\* press number id: lambda: self.root.after(0, self.toggle)
hotkey_callback(queue, id) == Append(queue, id)

RECURSIVE Invoke(_, _, _)
Invoke(queue, id, n) ==
    IF n = 0 THEN queue ELSE Invoke(hotkey_callback(queue, id), id, n - 1)

\* The user presses combination c: the listener thread invokes the callback of
\* every registration of c.  Nothing of the UI or the configuration is touched.
press(c) ==
    /\ pc = "run"
    /\ pressCount < pressBudget
    /\ Matching(bindings, c) > 0
    /\ pressCount' = pressCount + 1
    /\ afterQueue' = Invoke(afterQueue, pressCount + 1, Matching(bindings, c))
    /\ UNCHANGED <<pc, file, loaded, err, hotkey, shortcuts, hotkey_var,
                   settingsTree, selection, overlayTree,
                   overlayState, bindings, toggledLog, msgbox, savedOnce, edits, editBudget, pressBudget>>

\* The UI loop runs the oldest queued callback: ShortcutApp.toggle, which
\* calls ShortcutOverlay.toggle.
ShortcutApp_toggle ==
    /\ pc = "run"
    /\ afterQueue # <<>>
    /\ afterQueue' = Tail(afterQueue)
    /\ toggledLog' = Append(toggledLog, Head(afterQueue))
    /\ \E o \in {ShortcutOverlay_toggle(overlayTree, overlayState, shortcuts)} :
       overlayTree' = o.tree /\ overlayState' = o.state
    /\ Quiet
    /\ UNCHANGED <<pc, file, loaded, hotkey, shortcuts, hotkey_var, settingsTree,
                   selection, bindings, pressCount, savedOnce, edits, editBudget, pressBudget>>

\* ShortcutApp.on_close (WM_DELETE_WINDOW of the root window): unhook_all, then
\* root.destroy().  Every window is destroyed, mainloop returns and the process
\* ends: callbacks still queued never run.
on_close ==
    /\ pc = "run"
    /\ pc' = "closed"
    /\ bindings' = unhook_all(bindings)
    /\ overlayState' = "destroyed"
    /\ afterQueue' = <<>>
    /\ Quiet
    /\ UNCHANGED <<file, loaded, hotkey, shortcuts, hotkey_var, settingsTree,
                   selection, overlayTree, pressCount, toggledLog, savedOnce, edits, editBudget, pressBudget>>

Next ==
    \/ ShortcutApp_init
    \/ open_settings
    \/ \E text \in HotkeyInputs : type_hotkey(text)
    \/ \E i \in 1..Len(settingsTree) : select_row(i)
    \/ \E t \in TitleAnswers : \E d \in DescriptionPrompt(t) : add_item(t, d)
    \/ \E t \in TitleAnswers : \E d \in DescriptionPrompt(t) : edit_item(t, d)
    \/ remove_item
    \/ SettingsWindow_save
    \/ show_overlay
    \/ hide_overlay
    \/ \E c \in KeyCombos : press(c)
    \/ ShortcutApp_toggle
    \/ on_close

Spec == Init /\ [][Next]_vars

SpecKeys == InitKeys /\ [][Next]_vars

\* ------------------------------------------- the persistence adapter alone

\* Characters of the strings handed to ConfigManager.save.
PersistAlphabet == {"a", Space, Quote, Backslash, Newline}

PersistHotkeys == UNION {[1..n -> PersistAlphabet] : n \in 0..2}

PersistItems ==
    {ShortcutItem(t, d) : t \in {<<>>, <<Quote, "a">>}, d \in {<<"a">>, <<Backslash>>}}

PersistLists == UNION {[1..n -> PersistItems] : n \in 0..MaxPersistLen}

\* A ConfigManager on a path where no file exists, and a configuration.
InitPersist ==
    /\ pc = "persist"
    /\ file = NoFile
    /\ loaded = NoLoad
    /\ err = "none"
    /\ hotkey \in PersistHotkeys
    /\ shortcuts \in PersistLists
    /\ hotkey_var = <<>>
    /\ settingsTree = <<>>
    /\ selection = 0
    /\ overlayTree = <<>>
    /\ overlayState = "none"
    /\ bindings = <<>>
    /\ afterQueue = <<>>
    /\ pressCount = 0
    /\ toggledLog = <<>>
    /\ msgbox = "none"
    /\ savedOnce = FALSE
    /\ edits = 0
    /\ editBudget = 0
    /\ pressBudget = 0

\* config_manager.save(config)
PersistSave ==
    /\ pc = "persist"
    /\ file' = ConfigManager_save(AppConfig(hotkey, shortcuts))
    /\ UNCHANGED <<pc, loaded, err, hotkey, shortcuts, hotkey_var, settingsTree,
                   selection, overlayTree, overlayState, bindings,
                   afterQueue, pressCount, toggledLog, msgbox, savedOnce, edits,
          editBudget, pressBudget>>

\* config_manager.load()
PersistLoad ==
    /\ pc = "persist"
    /\ loaded' = ConfigManager_load(file)
    /\ UNCHANGED <<pc, file, err, hotkey, shortcuts, hotkey_var, settingsTree,
                   selection, overlayTree, overlayState, bindings,
                   afterQueue, pressCount, toggledLog, msgbox, savedOnce, edits,
          editBudget, pressBudget>>

NextPersist == PersistSave \/ PersistLoad

SpecPersist == InitPersist /\ [][NextPersist]_vars

\* ------------------------------------------------------------------ claims

\* The two entries and the hotkey the documentation gives for a missing file.
SeededEntries ==
    << [title |-> <<"W", "i", "n", "+", "E">>,
        description |-> <<"O", "p", "e", "n", " ", "F", "i", "l", "e", " ",
                          "E", "x", "p", "l", "o", "r", "e", "r">>],
       [title |-> <<"W", "i", "n", "+", "L">>,
        description |-> <<"L", "o", "c", "k", " ", "t", "h", "e", " ", "P", "C">>] >>
SeededHotkey == <<"c", "t", "r", "l", "+", "s", "h", "i", "f", "t", "+", "s">>

HotkeyErrorBox == "showerror: Please enter a valid hotkey."
SavedBox == "showinfo: Settings saved. New hotkey is active now."
SelectToRemoveBox == "showinfo: Please select a shortcut to remove."

Blank(text) == \A i \in 1..Len(text) : text[i] \in {" ", "\t", "\n"}

Contains(text, c) == \E i \in 1..Len(text) : text[i] = c

\* C1: a load that follows a save on the same path returns the hotkey and the
\* entries that were saved, in the same order, whatever the strings hold
\* (quotes, backslashes, newlines, blanks) and whatever the list is (empty,
\* with duplicates).
C1_SaveLoadRoundTrip ==
    (pc = "persist" /\ loaded.kind # "none" /\ loaded.sawFile)
        => /\ loaded.kind = "ok"
           /\ loaded.hotkey = hotkey
           /\ loaded.shortcuts = shortcuts

C1_Witness ==
    /\ pc = "persist"
    /\ loaded.kind = "ok"
    /\ loaded.sawFile
    /\ Len(shortcuts) = 2
    /\ shortcuts[1] = shortcuts[2]
    /\ Contains(hotkey, "\"")
    /\ Contains(shortcuts[1].description, "\\")

\* C2: a load on a path with no file returns the default hotkey and the two
\* seeded entries, in order, and the file still does not exist afterwards
\* (it appears only with the first save).
C2_MissingFileDefaults ==
    (loaded.kind # "none" /\ ~loaded.sawFile)
        => /\ loaded.kind = "ok"
           /\ loaded.hotkey = SeededHotkey
           /\ loaded.shortcuts = SeededEntries
           /\ (~savedOnce => ~file.exists)

C2_Witness ==
    /\ pc = "run"
    /\ ~loaded.sawFile
    /\ ~file.exists
    /\ hotkey = SeededHotkey
    /\ shortcuts = SeededEntries
    /\ edits = 0

\* C3: when the file exists but is malformed, load returns the default
\* configuration and the application starts.
C3_MalformedFallsBack ==
    (file \in MalformedFiles /\ pc # "init")
        => /\ pc # "crashed"
           /\ loaded.kind = "ok"
           /\ loaded.hotkey = SeededHotkey
           /\ loaded.shortcuts = SeededEntries

\* C4: a save with an empty or blank hotkey field shows the error box and
\* changes neither the hotkey of the configuration, nor its entries, nor the
\* file, nor the registered binding.
C4_BlankHotkeyRejected ==
    [][(Blank(hotkey_var) /\ SettingsWindow_save)
          => /\ msgbox' = HotkeyErrorBox
             /\ UNCHANGED <<hotkey, shortcuts, file, bindings, hotkey_var>>]_vars

C4_Witness ==
    /\ msgbox = HotkeyErrorBox
    /\ savedOnce
    /\ hotkey = <<"a">>
    /\ hotkey_var = <<" ">>
    /\ file.exists

\* The file holds a configuration with a non-empty hotkey.
HoldsHotkey(f) ==
    /\ f.exists
    /\ \E r \in {ConfigManager_load(f)} : r.kind = "ok" /\ r.hotkey # <<>>

\* C5: once a save has succeeded, the hotkey of the configuration and the
\* hotkey the file holds are non-empty, through every later add, edit, remove,
\* hotkey edit and save attempt.  Stated on every step: after it, if a save
\* has succeeded, the hotkey is non-empty and the file holds a non-empty
\* hotkey (read back from the file whenever the step wrote it, or was the
\* first successful save).
C5_HotkeyNonEmptyOnceSaved ==
    [][savedOnce'
          => /\ hotkey' # <<>>
             /\ (savedOnce /\ file' = file) \/ HoldsHotkey(file')]_vars

C5_Witness ==
    /\ savedOnce
    /\ edits >= 1
    /\ hotkey_var = <<>>
    /\ msgbox = HotkeyErrorBox
    /\ hotkey = <<"a">>
    /\ HoldsHotkey(file)

\* C6: while the application runs exactly one binding is installed, for the
\* hotkey of the configuration, so after a save that changes the hotkey the old
\* combination invokes nothing and the new one invokes the toggle; two
\* bindings are never installed together.
C6_OneBindingForCurrentHotkey ==
    /\ Len(bindings) <= 1
    /\ pc = "run" => bindings = <<hotkey>>

C6_Witness ==
    /\ pc = "run"
    /\ msgbox = SavedBox
    /\ loaded.hotkey = SeededHotkey
    /\ hotkey = <<"a">>
    /\ bindings = << <<"a">> >>
    /\ pressCount >= 1

Completed(title, description) == ~title.cancel /\ title.text # <<>> /\ ~description.cancel

ListsAll(tree, items) ==
    /\ Len(tree) = Len(items)
    /\ \A i \in 1..Len(items) : tree[i] = <<items[i].title, items[i].description>>

\* C7: a completed add_item appends exactly the entry given; one whose title
\* is empty or cancelled, or whose description is cancelled, leaves the list as
\* it is; and every show of the overlay lists the entries of the configuration
\* as they are then, saved or not.
C7_AddAppendsAndShows ==
    [][/\ \A t \in TitleAnswers, d \in DescriptionAnswers :
            add_item(t, d)
               => IF Completed(t, d)
                  THEN shortcuts' = shortcuts \o <<[title |-> t.text, description |-> d.text]>>
                  ELSE shortcuts' = shortcuts
       /\ (show_overlay \/ (ShortcutApp_toggle /\ overlayState = "withdrawn"))
               => /\ overlayState' = "normal"
                  /\ ListsAll(overlayTree', shortcuts')]_vars

C7_Witness ==
    /\ shortcuts = SeededEntries \o <<[title |-> <<"F", "1">>, description |-> <<>>]>>
    /\ overlayState = "normal"
    /\ Len(overlayTree) = 3
    /\ overlayTree[3] = << <<"F", "1">>, <<>> >>
    /\ ~file.exists

Without(list, k) == [i \in 1..(Len(list) - 1) |-> IF i < k THEN list[i] ELSE list[i + 1]]

\* C8: remove_item on a selected row deletes exactly the entry at that
\* position, also when it is the only one, and no handler of the running
\* application ends in an exception, from the empty list or any other.
C8_RemoveExactlyAndNoError ==
    [][/\ (remove_item /\ selection # 0)
              => /\ selection \in 1..Len(shortcuts)
                 /\ shortcuts' = Without(shortcuts, selection)
       /\ pc = "run" => err' = "none"]_vars

C8_Witness ==
    /\ pc = "run"
    /\ shortcuts = <<>>
    /\ settingsTree = <<>>
    /\ edits >= 1
    /\ msgbox = SelectToRemoveBox
    /\ err = "none"

\* C9: the toggle shows the overlay when it is withdrawn and withdraws it when
\* it is shown, and a second toggle would restore the visibility.
C9_ToggleFlips ==
    [][ShortcutApp_toggle
          => /\ overlayState \in {"withdrawn", "normal"}
             /\ overlayState = "withdrawn" => overlayState' = "normal"
             /\ overlayState = "normal" => overlayState' = "withdrawn"
             /\ ShortcutOverlay_toggle(overlayTree', overlayState', shortcuts').state
                    = overlayState]_vars

C9_Witness ==
    /\ Len(toggledLog) = 2
    /\ overlayState = "withdrawn"
    /\ overlayTree # <<>>

Presses(n) == [i \in 1..n |-> i]

\* C10 as stated: every press that reached the callback has had its toggle run
\* exactly once, or has it queued to run, in press order.
C10_EveryPressToggles ==
    toggledLog \o afterQueue = Presses(pressCount)

\* C10 as amended: a press only queues its toggle (it changes nothing of the
\* UI or the configuration); the toggles run in press order, at most once per
\* press; while the application runs none is lost.
C10_QueuedInOrderWhileRunning ==
    [][/\ pressCount' # pressCount
              => UNCHANGED <<overlayState, overlayTree, toggledLog, shortcuts, hotkey,
                             hotkey_var, settingsTree, selection, file, bindings>>
       /\ toggledLog' = Presses(Len(toggledLog'))
       /\ Len(toggledLog') <= pressCount'
       /\ pc' = "run" => toggledLog' \o afterQueue' = Presses(pressCount')]_vars

C10_Witness ==
    /\ pc = "run"
    /\ toggledLog = <<1>>
    /\ afterQueue = <<2>>
    /\ pressCount = 2

====
